---- MODULE Spec2Model ----
(***************************************************************************)
(* Model of x/feemarket/keeper: the EIP-1559 base fee calculation          *)
(* (Keeper.CalculateBaseFee), the block gas-wanted reconciliation          *)
(* (Keeper.CalculateBlockGasWanted) and the finalize hook that drives them *)
(* (Keeper.EndBlock).                                                      *)
(*                                                                         *)
(* Numbers are scaled down so that every arithmetic case stays inside the  *)
(* model checker's integers: unsigned 64-bit words are WordBits wide, and  *)
(* sdkmath.LegacyDec carries Precision decimal digits instead of 18.  A    *)
(* LegacyDec is the record [nil, i]: nil for LegacyDec{} (no big.Int       *)
(* behind it), i for the underlying integer, i.e. the value times ONE.     *)
(***************************************************************************)
EXTENDS Integers, Sequences, FiniteSets, TLC

(* ------------------------------ bounds --------------------------------- *)
WordBits == 4

Precision == 1

MaxHeight == 3

(* ------------------------- integer domains ----------------------------- *)
MaxUint64 == 2^WordBits - 1

MaxInt64 == 2^(WordBits - 1) - 1

IsInt64(n) == n >= -(MaxInt64 + 1) /\ n <= MaxInt64

IsUint64(n) == n >= 0 /\ n <= MaxUint64

\* big.Int.Int64(): the low word, as two's complement, when n does not fit
Int64(n) == IF (n % 2^WordBits) > MaxInt64 THEN (n % 2^WordBits) - 2^WordBits
            ELSE n % 2^WordBits

Abs(n) == IF n < 0 THEN -n ELSE n

\* big.Int.Quo: division truncated toward zero
Quo(a, b) == IF (a < 0) = (b < 0) THEN Abs(a) \div Abs(b)
             ELSE -(Abs(a) \div Abs(b))

(* --------------------------- sdkmath.LegacyDec ------------------------- *)
ONE == 10^Precision

NilDec == [nil |-> TRUE, i |-> 0]

Dec(n) == [nil |-> FALSE, i |-> n]

LegacyZeroDec == Dec(0)

LegacyOneDec == Dec(ONE)

LegacyNewDec(n) == Dec(n * ONE)

IsNil(d) == d.nil

LegacyMaxDec(d1, d2) == IF d1.i < d2.i THEN d2 ELSE d1

Add(d1, d2) == Dec(d1.i + d2.i)

Sub(d1, d2) == Dec(d1.i - d2.i)

MulInt(d, n) == Dec(d.i * n)

QuoInt(d, n) == Dec(Quo(d.i, n))

\* chopPrecisionAndRound: drop Precision digits, banker's rounding
ChopPrecisionAndRound(x) ==
    LET a == Abs(x)
        quo == a \div ONE
        rem == a % ONE
        r == IF rem = 0 THEN quo
             ELSE IF 2 * rem < ONE THEN quo
             ELSE IF 2 * rem > ONE THEN quo + 1
             ELSE IF quo % 2 = 0 THEN quo ELSE quo + 1
    IN IF x < 0 THEN -r ELSE r

Mul(d1, d2) == Dec(ChopPrecisionAndRound(d1.i * d2.i))

\* chopPrecisionAndTruncate
TruncateInt(d) == Quo(d.i, ONE)

(* ------------------------------ formatting ----------------------------- *)
DigitChars == <<"0", "1", "2", "3", "4", "5", "6", "7", "8", "9">>

RECURSIVE FormatUint(_)
\* fmt.Sprintf("%d", n) for n >= 0
FormatUint(n) == IF n < 10 THEN <<DigitChars[n + 1]>>
                 ELSE Append(FormatUint(n \div 10), DigitChars[(n % 10) + 1])

RECURSIVE PadFrac(_, _)
\* the fractional digits, left-padded with zeros to `width` characters
PadFrac(n, width) == IF width = 0 THEN <<>>
                     ELSE Append(PadFrac(n \div 10, width - 1), DigitChars[(n % 10) + 1])

\* LegacyDec.String(): [-]<integer part>.<Precision fractional digits>
DecString(d) ==
    LET a == Abs(d.i)
        body == FormatUint(a \div ONE) \o <<".">> \o PadFrac(a % ONE, Precision)
    IN IF d.i < 0 THEN <<"-">> \o body ELSE body

(* ------------------------------- inputs -------------------------------- *)
\* the block gas meter of the context: absent, or its GasConsumedToLimit()
NoMeter == [nil |-> TRUE, consumedToLimit |-> 0]

Meter(n) == [nil |-> FALSE, consumedToLimit |-> n]

Meters == {NoMeter} \cup {Meter(n) : n \in {0, 1, MaxInt64, MaxInt64 + 1}}

GasWantedValues == {0, 6, MaxInt64, MaxInt64 + 1, MaxUint64}

\* ctx.ConsensusParams(): Block may be nil; MaxGas -1 means unlimited
ConsParamsValues ==
    {[blockNil |-> TRUE, MaxGas |-> 0]}
        \cup {[blockNil |-> FALSE, MaxGas |-> g] : g \in {-1, 0, 1, 4}}

BaseFeeValues == {NilDec, Dec(0), Dec(3), Dec(4 * ONE)}

MinGasPriceValues == {Dec(0), Dec(5 * ONE)}

MinGasMultiplierValues == {Dec(ONE \div 2), Dec(ONE)}

ParamsValues ==
    [NoBaseFee : BOOLEAN,
     BaseFee : BaseFeeValues,
     MinGasPrice : MinGasPriceValues,
     MinGasMultiplier : MinGasMultiplierValues,
     ElasticityMultiplier : {1, 2},
     BaseFeeChangeDenominator : {1, 8},
     EnableHeight : {0, 2}]

(* -------------------------------- state -------------------------------- *)
VARIABLES
    params,              \* the module parameters (k.GetParams)
    consParams,          \* the consensus parameters of the context
    blockHeight,         \* ctx.BlockHeight()
    blockGasMeter,       \* ctx.BlockGasMeter()
    transientGasWanted,  \* k.GetTransientGasWanted: declared gas of the block
    blockGasWanted,      \* the value stored by k.SetBlockGasWanted
    events,              \* events emitted on the context's event manager
    gauges,              \* telemetry gauges set while finalizing this block
    phase,               \* "genesis", "deliver" (block open) or "ended"
    baseFee,             \* EndBlock's local: what CalculateBaseFee returned
    gasWantedCall,       \* the CalculateBlockGasWanted call of this finalize
    endBlockErr,         \* what EndBlock returned: "pending", "nil", "error"
    priorBaseFee         \* params.BaseFee as read when the finalize began

vars == <<params, consParams, blockHeight, blockGasMeter, transientGasWanted,
          blockGasWanted, events, gauges, phase, baseFee, gasWantedCall,
          endBlockErr, priorBaseFee>>

(* ----------------------- CalculateBlockGasWanted ----------------------- *)
GasWantedNotCalled == [called |-> FALSE, err |-> FALSE, value |-> 0]

GasWantedError == [called |-> TRUE, err |-> TRUE, value |-> 0]

GasWantedOk(v) == [called |-> TRUE, err |-> FALSE, value |-> v]

\* variant: the consumed-gas overflow check is missing
CalculateBlockGasWanted_NoUsedCheck(meter, transient, minGasMultiplier) ==
    IF meter.nil THEN GasWantedError
    ELSE LET gasWanted == transient
             gasUsed == meter.consumedToLimit
         IN IF ~IsInt64(gasWanted) THEN GasWantedError
            ELSE LET limitedGasWanted ==
                         Mul(LegacyNewDec(Int64(gasWanted)), minGasMultiplier)
                     updatedGasWanted ==
                         TruncateInt(LegacyMaxDec(limitedGasWanted,
                                                  LegacyNewDec(Int64(gasUsed))))
                 IN GasWantedOk(updatedGasWanted)

CalculateBlockGasWanted(meter, transient, minGasMultiplier) ==
    IF meter.nil THEN GasWantedError
    ELSE LET gasWanted == transient
             gasUsed == meter.consumedToLimit
         IN IF ~IsInt64(gasWanted) THEN GasWantedError
            ELSE IF ~IsInt64(gasUsed) THEN GasWantedError
            ELSE LET limitedGasWanted ==
                         Mul(LegacyNewDec(Int64(gasWanted)), minGasMultiplier)
                     updatedGasWanted ==
                         TruncateInt(LegacyMaxDec(limitedGasWanted,
                                                  LegacyNewDec(Int64(gasUsed))))
                 IN GasWantedOk(updatedGasWanted)

(* --------------------------- CalculateBaseFee -------------------------- *)
\* Params.IsBaseFeeEnabled(height)
IsBaseFeeEnabled(p, height) == ~p.NoBaseFee /\ height >= p.EnableHeight

GasLimit(cp) == IF ~cp.blockNil /\ cp.MaxGas > -1 THEN cp.MaxGas ELSE MaxUint64

\* variant: the increase has no floor of one unit
BaseFeeIncrease_NoFloor(parentBaseFee, parentGasUsed, parentGasTarget, denominator) ==
    LET gasUsedDelta == parentGasUsed - parentGasTarget
        x == MulInt(parentBaseFee, gasUsedDelta)
        y == QuoInt(x, parentGasTarget)
    IN Add(parentBaseFee, QuoInt(y, denominator))

\* variant: the target and the gas delta change places in the quotient
BaseFeeIncrease_Swapped(parentBaseFee, parentGasUsed, parentGasTarget, denominator) ==
    LET gasUsedDelta == parentGasUsed - parentGasTarget
        x == MulInt(parentBaseFee, parentGasTarget)
        y == QuoInt(x, gasUsedDelta)
        baseFeeDelta == LegacyMaxDec(QuoInt(y, denominator), LegacyOneDec)
    IN Add(parentBaseFee, baseFeeDelta)

\* the parent block wanted more gas than its target: the base fee increases
BaseFeeIncrease(parentBaseFee, parentGasUsed, parentGasTarget, denominator) ==
    LET gasUsedDelta == parentGasUsed - parentGasTarget
        x == MulInt(parentBaseFee, gasUsedDelta)
        y == QuoInt(x, parentGasTarget)
        baseFeeDelta == LegacyMaxDec(QuoInt(y, denominator), LegacyOneDec)
    IN Add(parentBaseFee, baseFeeDelta)

\* variant: the decrease is not bounded below by the min gas price
BaseFeeDecrease_NoMinGasPrice(parentBaseFee, parentGasUsed, parentGasTarget, denominator, minGasPrice) ==
    LET gasUsedDelta == parentGasTarget - parentGasUsed
        x == MulInt(parentBaseFee, gasUsedDelta)
        y == QuoInt(x, parentGasTarget)
        baseFeeDelta == QuoInt(y, denominator)
    IN Sub(parentBaseFee, baseFeeDelta)

\* the parent block wanted less gas than its target: the base fee decreases
BaseFeeDecrease(parentBaseFee, parentGasUsed, parentGasTarget, denominator, minGasPrice) ==
    LET gasUsedDelta == parentGasTarget - parentGasUsed
        x == MulInt(parentBaseFee, gasUsedDelta)
        y == QuoInt(x, parentGasTarget)
        baseFeeDelta == QuoInt(y, denominator)
    IN LegacyMaxDec(Sub(parentBaseFee, baseFeeDelta), minGasPrice)

\* variant: the min gas price bounds the fee at equilibrium too
AdjustBaseFee_FloorAtEquilibrium(parentBaseFee, parentGasUsed, parentGasTarget, denominator, minGasPrice) ==
    IF parentGasUsed = parentGasTarget THEN LegacyMaxDec(parentBaseFee, minGasPrice)
    ELSE IF parentGasTarget = 0 THEN LegacyZeroDec
    ELSE IF parentGasUsed > parentGasTarget
         THEN BaseFeeIncrease(parentBaseFee, parentGasUsed, parentGasTarget, denominator)
    ELSE BaseFeeDecrease(parentBaseFee, parentGasUsed, parentGasTarget,
                         denominator, minGasPrice)

\* variant: a zero target leaves the fee as it is instead of zeroing it
AdjustBaseFee_ZeroTargetKeepsFee(parentBaseFee, parentGasUsed, parentGasTarget, denominator, minGasPrice) ==
    IF parentGasUsed = parentGasTarget THEN parentBaseFee
    ELSE IF parentGasTarget = 0 THEN parentBaseFee
    ELSE IF parentGasUsed > parentGasTarget
         THEN BaseFeeIncrease(parentBaseFee, parentGasUsed, parentGasTarget, denominator)
    ELSE BaseFeeDecrease(parentBaseFee, parentGasUsed, parentGasTarget,
                         denominator, minGasPrice)

\* the adjustment, once the parent fee, the gas wanted and the target are known
AdjustBaseFee(parentBaseFee, parentGasUsed, parentGasTarget, denominator, minGasPrice) ==
    IF parentGasUsed = parentGasTarget THEN parentBaseFee
    ELSE IF parentGasTarget = 0 THEN LegacyZeroDec
    ELSE IF parentGasUsed > parentGasTarget
         THEN BaseFeeIncrease(parentBaseFee, parentGasUsed, parentGasTarget, denominator)
    ELSE BaseFeeDecrease(parentBaseFee, parentGasUsed, parentGasTarget,
                         denominator, minGasPrice)

\* the steady-state fee for a gas-wanted figure: target, then adjustment
SteadyStateBaseFee(p, cp, parentGasUsed) ==
    LET parentGasTargetInt == Quo(GasLimit(cp), p.ElasticityMultiplier)
    IN IF ~IsUint64(parentGasTargetInt) THEN NilDec
       ELSE AdjustBaseFee(p.BaseFee, parentGasUsed, parentGasTargetInt,
                          p.BaseFeeChangeDenominator, p.MinGasPrice)

\* variant: the first EIP-1559 block is not told apart from the later ones
CalculateBaseFee_NoActivationBlock(p, cp, height, meter, transient) ==
    IF ~IsBaseFeeEnabled(p, height)
    THEN [fee |-> NilDec, gw |-> GasWantedNotCalled]
    ELSE IF IsNil(p.BaseFee)
    THEN [fee |-> NilDec, gw |-> GasWantedNotCalled]
    ELSE LET gw == CalculateBlockGasWanted(meter, transient, p.MinGasMultiplier)
         IN IF gw.err THEN [fee |-> NilDec, gw |-> gw]
            ELSE [fee |-> SteadyStateBaseFee(p, cp, gw.value), gw |-> gw]

\* returns the fee and the gas-wanted call it made (if it made one)
CalculateBaseFee(p, cp, height, meter, transient) ==
    IF ~IsBaseFeeEnabled(p, height)
    THEN [fee |-> NilDec, gw |-> GasWantedNotCalled]
    ELSE IF height = p.EnableHeight
    THEN [fee |-> p.BaseFee, gw |-> GasWantedNotCalled]
    ELSE IF IsNil(p.BaseFee)
    THEN [fee |-> NilDec, gw |-> GasWantedNotCalled]
    ELSE LET gw == CalculateBlockGasWanted(meter, transient, p.MinGasMultiplier)
         IN IF gw.err THEN [fee |-> NilDec, gw |-> gw]
            ELSE [fee |-> SteadyStateBaseFee(p, cp, gw.value), gw |-> gw]

(* -------------------------------- events ------------------------------- *)
EventTypeFeeMarket == "fee_market"

AttributeKeyBaseFee == "base_fee"

BlockGasEvent(height, amount) ==
    [type |-> "block_gas",
     attrs |-> << <<"height", FormatUint(height)>>, <<"amount", FormatUint(amount)>> >>]

FeeMarketEvent(fee) ==
    [type |-> EventTypeFeeMarket, attrs |-> << <<AttributeKeyBaseFee, DecString(fee)>> >>]

\* k.SetBaseFee: the base fee is kept in the module parameters
SetBaseFee(p, fee) == [p EXCEPT !.BaseFee = fee]

(* ------------------------------- actions ------------------------------- *)
Init ==
    /\ params \in ParamsValues
    /\ consParams \in ConsParamsValues
    /\ blockHeight = 0
    /\ blockGasMeter = NoMeter
    /\ transientGasWanted = 0
    /\ blockGasWanted = 0
    /\ events = <<>>
    /\ gauges = {}
    /\ phase = "genesis"
    /\ baseFee = NilDec
    /\ gasWantedCall = GasWantedNotCalled
    /\ endBlockErr = "pending"
    /\ priorBaseFee = params.BaseFee

\* a block is opened and its transactions applied: a fresh context with the
\* block's height, gas meter reading and declared gas
WithBlockContext ==
    /\ phase \in {"genesis", "ended"}
    /\ blockHeight < MaxHeight
    /\ \E meter \in Meters, wanted \in GasWantedValues :
          /\ blockGasMeter' = meter
          /\ transientGasWanted' = wanted
    /\ blockHeight' = blockHeight + 1
    /\ events' = <<>>
    /\ gauges' = {}
    /\ phase' = "deliver"
    /\ baseFee' = NilDec
    /\ gasWantedCall' = GasWantedNotCalled
    /\ endBlockErr' = "pending"
    /\ priorBaseFee' = params.BaseFee
    /\ UNCHANGED <<params, consParams, blockGasWanted>>

\* variant: the base fee is stored before the nil check
EndBlock_StoresAbsent ==
    /\ phase = "deliver"
    /\ LET res == CalculateBaseFee(params, consParams, blockHeight,
                                   blockGasMeter, transientGasWanted)
           recorded == res.gw.called /\ ~res.gw.err
           gasEvents == IF recorded
                        THEN <<BlockGasEvent(blockHeight, res.gw.value)>>
                        ELSE <<>>
           gasGauges == IF recorded THEN {"block_gas"} ELSE {}
       IN /\ baseFee' = res.fee
          /\ gasWantedCall' = res.gw
          /\ blockGasWanted' = IF recorded THEN res.gw.value ELSE blockGasWanted
          /\ params' = SetBaseFee(params, res.fee)
          /\ IF IsNil(res.fee)
             THEN /\ events' = gasEvents
                  /\ gauges' = gasGauges
             ELSE /\ events' = Append(gasEvents, FeeMarketEvent(res.fee))
                  /\ gauges' = gasGauges \cup {"base_fee"}
    /\ endBlockErr' = "nil"
    /\ phase' = "ended"
    /\ priorBaseFee' = params.BaseFee
    /\ UNCHANGED <<consParams, blockHeight, blockGasMeter, transientGasWanted>>

EndBlock ==
    /\ phase = "deliver"
    /\ LET res == CalculateBaseFee(params, consParams, blockHeight,
                                   blockGasMeter, transientGasWanted)
           recorded == res.gw.called /\ ~res.gw.err
           gasEvents == IF recorded
                        THEN <<BlockGasEvent(blockHeight, res.gw.value)>>
                        ELSE <<>>
           gasGauges == IF recorded THEN {"block_gas"} ELSE {}
       IN /\ baseFee' = res.fee
          /\ gasWantedCall' = res.gw
          /\ blockGasWanted' = IF recorded THEN res.gw.value ELSE blockGasWanted
          /\ IF IsNil(res.fee)
             THEN /\ params' = params
                  /\ events' = gasEvents
                  /\ gauges' = gasGauges
             ELSE /\ params' = SetBaseFee(params, res.fee)
                  /\ events' = Append(gasEvents, FeeMarketEvent(res.fee))
                  /\ gauges' = gasGauges \cup {"base_fee"}
    /\ endBlockErr' = "nil"
    /\ phase' = "ended"
    /\ priorBaseFee' = params.BaseFee
    /\ UNCHANGED <<consParams, blockHeight, blockGasMeter, transientGasWanted>>

Next == WithBlockContext \/ EndBlock

Spec == Init /\ [][Next]_vars

(* ------------------------ vocabulary of the claims --------------------- *)
MaxOf(a, b) == IF a < b THEN b ELSE a

Ended == phase = "ended"

\* the gas limit and gas target of the block, from the consensus parameters
BlockGasLimit == IF consParams.blockNil \/ consParams.MaxGas < 0 THEN MaxUint64
                 ELSE consParams.MaxGas

GasTarget == BlockGasLimit \div params.ElasticityMultiplier

\* the reconciled gas-wanted figure of declared gas w, multiplier m, consumed c
ReconciledGas(w, m, c) == MaxOf((w * m.i) \div ONE, c)

\* the finalize ran in steady state with a parent fee and a gas-wanted figure
SteadyState ==
    /\ Ended
    /\ ~params.NoBaseFee
    /\ blockHeight > params.EnableHeight
    /\ ~priorBaseFee.nil
    /\ gasWantedCall.called
    /\ ~gasWantedCall.err

GasWanted == gasWantedCall.value

Congested == SteadyState /\ GasTarget > 0 /\ GasWanted > GasTarget

Slack == SteadyState /\ GasTarget > 0 /\ GasWanted < GasTarget

Equilibrium == SteadyState /\ GasWanted = GasTarget

DegenerateTarget == SteadyState /\ GasTarget = 0

RawIncrease ==
    ((priorBaseFee.i * (GasWanted - GasTarget)) \div GasTarget)
        \div params.BaseFeeChangeDenominator

RawDecrease ==
    ((priorBaseFee.i * (GasTarget - GasWanted)) \div GasTarget)
        \div params.BaseFeeChangeDenominator

FeeEvents == {k \in 1..Len(events) : events[k].type = EventTypeFeeMarket}

GasEvents == {k \in 1..Len(events) : events[k].type = "block_gas"}

DigitValue(c) == CHOOSE k \in 0..9 : DigitChars[k + 1] = c

RECURSIVE ParseUint(_)
ParseUint(str) == IF Len(str) = 0 THEN 0
                  ELSE 10 * ParseUint(SubSeq(str, 1, Len(str) - 1))
                          + DigitValue(str[Len(str)])

\* the decimal a formatted string denotes, as its underlying integer
ParseDec(str) ==
    LET neg == str[1] = "-"
        body == IF neg THEN Tail(str) ELSE str
        dot == CHOOSE k \in 1..Len(body) : body[k] = "."
        whole == ParseUint(SubSeq(body, 1, dot - 1))
        frac == ParseUint(SubSeq(body, dot + 1, Len(body)))
        n == whole * ONE + frac
    IN IF neg THEN -n ELSE n

\* the steady-state fee the calculation yields for a gas-wanted figure g
FeeFor(g) == SteadyStateBaseFee([params EXCEPT !.BaseFee = priorBaseFee], consParams, g)

(* -------------------------------- claims ------------------------------- *)
\* C1: with NoBaseFee set or below the enable height the result is absent,
\* whatever the other inputs; at the enable height (NoBaseFee unset) the
\* result is params.BaseFee itself, unadjusted and without the min gas price.
C1_RegimeSelection ==
    Ended =>
        /\ (params.NoBaseFee \/ blockHeight < params.EnableHeight) => baseFee = NilDec
        /\ (~params.NoBaseFee /\ blockHeight = params.EnableHeight)
               => baseFee = priorBaseFee

C1_Witness ==
    /\ Ended
    /\ ~params.NoBaseFee
    /\ blockHeight = params.EnableHeight
    /\ ~priorBaseFee.nil
    /\ priorBaseFee.i < params.MinGasPrice.i
    /\ ~blockGasMeter.nil
    /\ transientGasWanted > 0
    /\ baseFee = priorBaseFee

\* C2: CalculateBlockGasWanted fails with value 0 and records nothing when
\* there is no block gas meter or the declared or the consumed gas exceeds
\* MaxInt64; otherwise it returns and records
\* max(truncate(declared * minGasMultiplier), consumed), never below consumed.
C2_GasWantedReference ==
    [][(phase = "deliver" /\ phase' = "ended" /\ gasWantedCall'.called) =>
         IF \/ blockGasMeter.nil
            \/ transientGasWanted > MaxInt64
            \/ blockGasMeter.consumedToLimit > MaxInt64
         THEN /\ gasWantedCall'.err
              /\ gasWantedCall'.value = 0
              /\ blockGasWanted' = blockGasWanted
              /\ GasEvents' = {}
         ELSE LET ref == ReconciledGas(transientGasWanted, params.MinGasMultiplier,
                                       blockGasMeter.consumedToLimit)
              IN /\ ~gasWantedCall'.err
                 /\ gasWantedCall'.value = ref
                 /\ blockGasWanted' = ref
                 /\ ref >= blockGasMeter.consumedToLimit]_vars

C2_Witness ==
    /\ Ended
    /\ gasWantedCall.called
    /\ ~gasWantedCall.err
    /\ gasWantedCall.value > blockGasMeter.consumedToLimit
    /\ gasWantedCall.value < transientGasWanted
    /\ blockGasWanted = gasWantedCall.value

\* C3: a finalize in which CalculateBlockGasWanted failed returns an error.
C3_FailureAbortsFinalize ==
    (Ended /\ gasWantedCall.called /\ gasWantedCall.err) => endBlockErr = "error"

\* C4: a congested steady-state block (target > 0, gas wanted above it) gets
\* parentBaseFee + max(raw delta, 1): at least one unit above the parent fee,
\* exactly one unit when the raw delta is below 1, and the stored base fee
\* is strictly above what it was before the block.
C4_CongestionResponse ==
    Congested =>
        /\ baseFee = Dec(priorBaseFee.i + MaxOf(RawIncrease, ONE))
        /\ baseFee.i >= priorBaseFee.i + ONE
        /\ (RawIncrease < ONE => baseFee.i = priorBaseFee.i + ONE)
        /\ params.BaseFee = baseFee
        /\ params.BaseFee.i > priorBaseFee.i

C4_Witness ==
    /\ Congested
    /\ priorBaseFee.i > 0
    /\ RawIncrease < ONE
    /\ baseFee.i = priorBaseFee.i + ONE
    /\ params.BaseFee = baseFee

\* C5: a slack steady-state block (target > 0, gas wanted below it) gets
\* max(parentBaseFee - raw delta, minGasPrice), the delta having no floor:
\* never below minGasPrice, and minGasPrice when the decrease falls below it.
C5_SlackResponse ==
    Slack =>
        /\ baseFee = Dec(MaxOf(priorBaseFee.i - RawDecrease, params.MinGasPrice.i))
        /\ baseFee.i >= params.MinGasPrice.i
        /\ (priorBaseFee.i - RawDecrease < params.MinGasPrice.i
               => baseFee = params.MinGasPrice)
        /\ (RawDecrease = 0 /\ priorBaseFee.i >= params.MinGasPrice.i
               => baseFee = priorBaseFee)

C5_Witness ==
    /\ Slack
    /\ priorBaseFee.i > 0
    /\ priorBaseFee.i < params.MinGasPrice.i
    /\ baseFee = params.MinGasPrice

\* C6: a steady-state block whose gas wanted equals the target gets the
\* parent base fee itself, with no min gas price floor, and the stored base
\* fee is what it was before the block.
C6_Equilibrium ==
    Equilibrium => baseFee = priorBaseFee /\ params.BaseFee = priorBaseFee

C6_Witness ==
    /\ Equilibrium
    /\ GasTarget > 0
    /\ priorBaseFee.i < params.MinGasPrice.i
    /\ baseFee = priorBaseFee
    /\ params.BaseFee = priorBaseFee

\* C7: with everything else fixed, of two gas-wanted figures above the
\* target the larger never yields the smaller base fee.
\* (Stated for each figure g above the target and its successor g + 1, which
\* gives every pair g1 < g2 by transitivity, and for the block's own figure
\* against every larger one.)
C7_MonotonicCongestion ==
    Congested =>
        /\ \A g \in (GasTarget + 1)..(MaxUint64 - 1) : FeeFor(g + 1).i >= FeeFor(g).i
        /\ \A g2 \in (GasWanted + 1)..MaxUint64 : FeeFor(g2).i >= baseFee.i

C7_Witness ==
    /\ Congested
    /\ \E g2 \in (GasWanted + 1)..MaxUint64 : FeeFor(g2).i > baseFee.i
    /\ \E g2 \in (GasWanted + 1)..MaxUint64 : FeeFor(g2).i = baseFee.i

\* C8: a finalize whose base fee is absent leaves the stored base fee as it
\* was and emits no base-fee event and no base-fee gauge; one whose base
\* fee is present stores exactly it and emits one base-fee event carrying it.
C8_AbsentLeavesState ==
    Ended =>
        IF baseFee.nil
        THEN /\ params.BaseFee = priorBaseFee
             /\ FeeEvents = {}
             /\ "base_fee" \notin gauges
        ELSE /\ params.BaseFee = baseFee
             /\ Cardinality(FeeEvents) = 1
             /\ \A k \in FeeEvents :
                   /\ events[k].attrs[1][1] = AttributeKeyBaseFee
                   /\ ParseDec(events[k].attrs[1][2]) = baseFee.i

C8_Witness ==
    /\ Ended
    /\ baseFee.nil
    /\ gasWantedCall.called
    /\ gasWantedCall.err
    /\ ~priorBaseFee.nil
    /\ priorBaseFee.i > 0
    /\ params.BaseFee = priorBaseFee
    /\ events = <<>>

\* C9 (as stated): with a zero gas target the steady-state result is a zero
\* fee for every gas-wanted figure, zero included.
C9_ZeroTargetAlwaysZero ==
    DegenerateTarget => baseFee = LegacyZeroDec

\* C9 (amended): with a zero gas target the steady-state result is a zero
\* fee for every gas-wanted figure above zero; when the gas wanted is zero
\* too, the equilibrium check comes first and the parent fee is returned.
C9_ZeroTarget ==
    DegenerateTarget =>
        IF GasWanted = 0 THEN baseFee = priorBaseFee ELSE baseFee = LegacyZeroDec

C9_Witness ==
    /\ DegenerateTarget
    /\ GasWanted > 0
    /\ priorBaseFee.i > 0
    /\ baseFee = LegacyZeroDec
    /\ params.BaseFee = LegacyZeroDec

\* C10: every finalize with a gas meter and non-overflowing inputs calls the
\* gas-wanted calculator, records max(truncate(declared * minGasMultiplier),
\* consumed) and emits its block_gas event, whatever the fee-market regime.
C10_ReconciledEveryBlock ==
    (/\ Ended
     /\ ~blockGasMeter.nil
     /\ transientGasWanted <= MaxInt64
     /\ blockGasMeter.consumedToLimit <= MaxInt64)
        => LET ref == ReconciledGas(transientGasWanted, params.MinGasMultiplier,
                                    blockGasMeter.consumedToLimit)
           IN /\ gasWantedCall.called
              /\ blockGasWanted = ref
              /\ \E k \in GasEvents : ParseUint(events[k].attrs[2][2]) = ref

====
